---- MODULE Spec2Model ----
(***************************************************************************)
(* Model of the Mira GHG calculator (src/app.py): the emission factor      *)
(* table, the emissions engine (calculate_total_emissions,                 *)
(* predict_future_emissions, generate_recommendations and the comparison   *)
(* series of plot_comparison_chart) and the three-page Streamlit session.  *)
(*                                                                         *)
(* Numbers.  Every factor of the table has at most two decimals, so a      *)
(* factor and a quantity x factor product are held as integers in          *)
(* hundredths of a kg CO2e.  The values multiplied by 0.8 and 1.05 are     *)
(* held as exact reals in factored form (see Times).                       *)
(*                                                                         *)
(* Python dicts keep insertion order: an item mapping is a sequence of     *)
(* <<item, quantity>> pairs with distinct items.  The outer dicts (the     *)
(* table, a QuantityInput, st.session_state) are functions on their keys.  *)
(***************************************************************************)
EXTENDS Integers, Sequences, FiniteSets, TLC

VARIABLES
    factors,              \* the module global EMISSION_FACTORS
    session_state,        \* st.session_state: keys "page" and "data"
    radio,                \* the sidebar radio shown: [index, value]
    screen,               \* page function that rendered, or "exception"
    error,                \* text given to st.error in the last run, or ""
    event,                \* the user event the last run handled
    calls,                \* engine functions called in the last step
    data,                 \* the QuantityInput handed to the engine
    total_emissions,      \* result of calculate_total_emissions
    predicted_emissions,  \* result of predict_future_emissions
    recommendations,      \* result of generate_recommendations
    comparison,           \* series of plot_comparison_chart
    raised                \* exception that ended the last step, or "none"

vars == <<factors, session_state, radio, screen, error, event, calls, data,
          total_emissions, predicted_emissions, recommendations, comparison,
          raised>>

-----------------------------------------------------------------------------
(* Bounds of the model *)

\* items of one QuantityInput handed directly to the engine
MaxItems == 2
\* the non-zero quantity of an item of such an input (the other is 0)
MaxQty == 2
\* leading items of each table category that inputs draw from
ItemsPerCat == 2
\* items selected on the input page in one session step
MaxSelected == 1
\* leading items of each table category offered on the modelled input page
FormItemsPerCat == 1
\* the non-zero quantity typed on the modelled input page (the other is 0)
FormMaxQty == 1

-----------------------------------------------------------------------------
(* The emission factor table, factors in hundredths *)

EMISSION_FACTORS ==
    [ livestock |->
        << <<"Beef Cow", 9900>>, <<"Dairy Cow", 10200>>, <<"Buffalo", 10700>>,
           <<"Chicken", 600>>, <<"Pigs", 2100>>, <<"Sheep", 1500>>,
           <<"Goats", 1500>>, <<"Camels", 8400>>, <<"Horses", 5600>> >>,
      crops |->
        << <<"Wheat", 69>>, <<"Barley", 54>>, <<"Maize", 77>>, <<"Oats", 64>>,
           <<"Rye", 68>>, <<"Rice", 150>>, <<"Millet", 67>>, <<"Sorghum", 61>>,
           <<"Pasture", 15>>, <<"Peas", 45>>, <<"Beans", 62>>,
           <<"Soybeans", 62>>, <<"Potatoes", 43>>, <<"Feedbeet", 47>>,
           <<"Sugarcane", 73>>, <<"Peanuts", 80>> >>,
      fertilizer |->
        << <<"Urea", 187>>, <<"Lime", 61>>, <<"Gypsum", 10>>,
           <<"Animal Manure", 20>>, <<"Organic Compost", 20>>,
           <<"Filter Cake", 25>>, <<"Vinasse", 10>> >>,
      fuel |->
        << <<"Diesel Oil", 268>>, <<"Gasoline", 231>>, <<"Biodiesel", 183>>,
           <<"Anhydrous Ethanol", 150>>, <<"Hydrated Ethanol", 144>>,
           <<"Natural Gas", 275>> >>,
      electricity |->
        << <<"Solar", 5>>, <<"Wind", 3>>, <<"Hydropower", 2>> >> ]

\* the keys of the table in the order the literal lists them
CategoryOrder == <<"livestock", "crops", "fertilizer", "fuel", "electricity">>

Categories == {CategoryOrder[i] : i \in 1..Len(CategoryOrder)}

get_emission_factors == factors

-----------------------------------------------------------------------------
(* dict operations on an item mapping *)

dict_keys(d) == {d[i][1] : i \in 1..Len(d)}

\* d[key], for a key of d
dict_at(d, key) == d[CHOOSE i \in 1..Len(d) : d[i][1] = key][2]

\* d.get(key, default)
dict_get(d, key, default) ==
    IF key \in dict_keys(d) THEN dict_at(d, key) ELSE default

-----------------------------------------------------------------------------
(* Exact reals for the float products.  A value is n x 2^e[1] x 3^e[2] x   *)
(* 5^e[3] x 7^e[4] kg, n a natural number with none of the factors 2, 3,   *)
(* 5, 7 (or 0, with e all 0): the representation of a number is unique,    *)
(* and a product by 0.8 = 2^2 / 5 or by 1.05 = 3 x 7 / (2^2 x 5) is exact. *)

Primes == <<2, 3, 5, 7>>

\* how often p divides n, for n > 0
RECURSIVE Multiplicity(_, _)
Multiplicity(n, p) == IF n % p = 0 THEN 1 + Multiplicity(n \div p, p) ELSE 0

RECURSIVE Power(_, _)
Power(p, k) == IF k = 0 THEN 1 ELSE p * Power(p, k - 1)

Zero == [n |-> 0, e |-> <<0, 0, 0, 0>>]

\* the natural number n as a value
OfNat(n) ==
    IF n = 0 THEN Zero
    ELSE LET e == <<Multiplicity(n, Primes[1]), Multiplicity(n, Primes[2]),
                    Multiplicity(n, Primes[3]), Multiplicity(n, Primes[4])>>
         IN  [n |-> n \div (Power(Primes[1], e[1]) * Power(Primes[2], e[2])
                            * Power(Primes[3], e[3]) * Power(Primes[4], e[4])),
              e |-> e]

\* x * c, for x = 0 or c.n = 1
Times(x, c) ==
    IF x.n = 0 THEN Zero
    ELSE [n |-> x.n * c.n,
          e |-> <<x.e[1] + c.e[1], x.e[2] + c.e[2],
                  x.e[3] + c.e[3], x.e[4] + c.e[4]>>]

\* 10^-2, and a value held in hundredths
Hundredth == [n |-> 1, e |-> <<-2, 0, -2, 0>>]
ToReal(hundredths) == Times(OfNat(hundredths), Hundredth)

\* the literals 0.8 and 1.05
REDUCTION == [n |-> 1, e |-> <<2, 0, -1, 0>>]
GROWTH == [n |-> 1, e |-> <<-2, 1, -1, 1>>]

-----------------------------------------------------------------------------
(* The emissions engine.  A call returns [raised, value]. *)

Ok(v) == [raised |-> "none", value |-> v]
Raise(exc, v) == [raised |-> exc, value |-> v]

NoTotals == [c \in {} |-> 0]
NoPrediction == [traditional |-> <<>>, reduced |-> <<>>]
NoComparison == [labels |-> <<>>, traditional_values |-> <<>>,
                 reduced_values |-> <<>>]

calculate_emissions_mut(quantity, factor) == quantity + factor

calculate_emissions(quantity, factor) == quantity * factor

\* sum(calculate_emissions(quantity, factor_dict.get(item, 0)) for ...)
RECURSIVE sum_emissions(_, _)
sum_emissions(items, factor_dict) ==
    IF items = <<>> THEN 0
    ELSE calculate_emissions(Head(items)[2],
                             dict_get(factor_dict, Head(items)[1], 0))
         + sum_emissions(Tail(items), factor_dict)

calculate_total_emissions(d) ==
    LET fs == get_emission_factors
    IN  IF \E category \in DOMAIN d : category \notin DOMAIN fs
        THEN Raise("KeyError", NoTotals)
        ELSE Ok([category \in DOMAIN d |->
                    sum_emissions(d[category], fs[category])])

\* list(range(2024, 2034))
years == [i \in 1..10 |-> 2023 + i]

RECURSIVE project_mut(_, _)
project_mut(p, n) ==
    IF n = 0 THEN p
    ELSE project_mut(
           [traditional |-> Append(p.traditional,
                                   Times(p.traditional[Len(p.traditional)], GROWTH)),
            reduced |-> Append(p.reduced,
                               Times(p.traditional[Len(p.traditional)], GROWTH))],
           n - 1)

\* the loop body of predict_future_emissions, run n times
RECURSIVE project(_, _)
project(p, n) ==
    IF n = 0 THEN p
    ELSE project(
           [traditional |-> Append(p.traditional,
                                   Times(p.traditional[Len(p.traditional)], GROWTH)),
            reduced |-> Append(p.reduced,
                               Times(p.reduced[Len(p.reduced)], GROWTH))],
           n - 1)

predict_future_emissions(d) ==
    LET base == calculate_total_emissions(d)
    IN  IF base.raised # "none" THEN Raise(base.raised, NoPrediction)
        ELSE IF ~(Categories \subseteq DOMAIN base.value)
        THEN Raise("KeyError", NoPrediction)
        ELSE LET b == base.value
                 traditional0 == <<ToReal(b["livestock"] + b["crops"]
                                         + b["fertilizer"] + b["fuel"]
                                         + b["electricity"])>>
                 reduced0 == [i \in 1..Len(traditional0) |->
                                 Times(traditional0[i], REDUCTION)]
             IN  Ok(project([traditional |-> traditional0,
                             reduced |-> reduced0],
                            Len(years) - 1))

-----------------------------------------------------------------------------
(* generate_recommendations.  A line is [text, item]: the literal of the   *)
(* source, and the item its f-string interpolates ("" when the literal has *)
(* no placeholder).                                                        *)

Header(category) ==
    [text |-> CASE category = "livestock" -> "### Recommendations for Livestock"
                [] category = "crops" -> "### Recommendations for Crops"
                [] category = "fertilizer" -> "### Recommendations for Fertilizers"
                [] category = "fuel" -> "### Recommendations for Fuel"
                [] category = "electricity" -> "### Recommendations for Electricity",
     item |-> ""]

Advice(category, item) ==
    CASE category = "livestock" ->
           [text |-> "- Consider improving feed efficiency and manure management for {animal}. This can help reduce methane emissions.",
            item |-> item]
      [] category = "crops" ->
           [text |-> "- Optimize fertilizer use and adopt precision agriculture techniques for {crop} to minimize emissions.",
            item |-> item]
      [] category = "fertilizer" ->
           [text |-> "- Use fertilizers like Organic Compost or Filter Cake to reduce emissions compared to conventional options.",
            item |-> ""]
      [] category = "fuel" ->
           [text |-> "- Switch to cleaner fuels like Biodiesel or reduce reliance on Diesel Oil to lower emissions.",
            item |-> ""]
      [] category = "electricity" ->
           [text |-> "- Increase the use of renewable energy sources such as Solar or Wind to reduce emissions from electricity consumption.",
            item |-> ""]

RECURSIVE advice_lines_mut(_, _)
advice_lines_mut(items, category) ==
    IF items = <<>> THEN <<>>
    ELSE (IF Head(items)[2] >= 0
          THEN <<Advice(category, Head(items)[1])>> ELSE <<>>)
         \o advice_lines_mut(Tail(items), category)

\* for item, quantity in data[category].items(): if quantity > 0: append
RECURSIVE advice_lines(_, _)
advice_lines(items, category) ==
    IF items = <<>> THEN <<>>
    ELSE (IF Head(items)[2] > 0
          THEN <<Advice(category, Head(items)[1])>> ELSE <<>>)
         \o advice_lines(Tail(items), category)

\* one "if category in data and data[category]:" block
recommend(d, category) ==
    IF category \in DOMAIN d /\ d[category] # <<>>
    THEN <<Header(category)>> \o advice_lines(d[category], category)
    ELSE <<>>

generate_recommendations(d) ==
    Ok(recommend(d, "livestock") \o recommend(d, "crops")
       \o recommend(d, "fertilizer") \o recommend(d, "fuel")
       \o recommend(d, "electricity"))

-----------------------------------------------------------------------------
(* The series of plot_comparison_chart *)

RECURSIVE add_emissions(_, _, _)
add_emissions(acc, type_dict, factor_dict) ==
    IF acc.raised # "none" \/ type_dict = <<>> THEN acc
    ELSE LET item == Head(type_dict)[1]
             quantity == Head(type_dict)[2]
         IN  IF item \notin dict_keys(factor_dict)
             THEN Raise("KeyError", NoComparison)
             ELSE LET annual_emissions ==
                          calculate_emissions(quantity, dict_at(factor_dict, item))
                      reduced_emissions ==
                          Times(ToReal(annual_emissions), REDUCTION)
                      s == acc.value
                  IN  add_emissions(
                        Ok([labels |-> Append(s.labels, item),
                            traditional_values |->
                                Append(s.traditional_values, annual_emissions),
                            reduced_values |->
                                Append(s.reduced_values, reduced_emissions)]),
                        Tail(type_dict), factor_dict)

\* for category in factors: add_emissions(data[category], factors[category])
RECURSIVE compare_from(_, _, _)
compare_from(acc, d, i) ==
    IF acc.raised # "none" \/ i > Len(CategoryOrder) THEN acc
    ELSE LET category == CategoryOrder[i]
         IN  IF category \notin DOMAIN d
             THEN Raise("KeyError", NoComparison)
             ELSE compare_from(
                    add_emissions(acc, d[category],
                                  get_emission_factors[category]),
                    d, i + 1)

plot_comparison_chart(d) == compare_from(Ok(NoComparison), d, 1)

-----------------------------------------------------------------------------
(* The Streamlit session: one script run of src/app.py per user event *)

pages == <<"Home", "Enter your Data", "Result">>

NoData == [c \in {} |-> <<>>]
NoSession == [k \in {} |-> ""]
NoRadio == [index |-> -1, value |-> ""]
NoEvent == [kind |-> "none", value |-> "", form |-> NoData]

\* st.session_state[key] = value
set_state(ss, key, value) ==
    [k \in DOMAIN ss \cup {key} |-> IF k = key THEN value ELSE ss[k]]

\* what one run shows and computes
Blank ==
    [screen |-> "none", error |-> "", calls |-> <<>>, data |-> NoData,
     total_emissions |-> NoTotals, predicted_emissions |-> NoPrediction,
     recommendations |-> <<>>, comparison |-> NoComparison,
     raised |-> "none", rerun |-> FALSE]

\* The radio has no key: its identity is its arguments, index among them.
\* A widget of the same identity as the one shown keeps the value the
\* browser holds for it; another identity starts at pages[index].
show_navigation_bar(ss, rad, ev) ==
    LET shown == IF ev.kind = "radio" THEN [rad EXCEPT !.value = ev.value]
                 ELSE rad
        known == "page" \in DOMAIN ss
    IN  IF known /\ ~(\E i \in 1..Len(pages) : pages[i] = ss["page"])
        THEN [raised |-> "ValueError", session_state |-> ss, radio |-> rad]
        ELSE LET index == IF known
                          THEN (CHOOSE i \in 1..Len(pages) :
                                    pages[i] = ss["page"]) - 1
                          ELSE 0
                 page == IF shown.index = index THEN shown.value
                         ELSE pages[index + 1]
             IN  [raised |-> "none",
                  session_state |-> set_state(ss, "page", page),
                  radio |-> [index |-> index, value |-> page]]

show_introduction_mut(ss, ev) ==
    IF ev.kind = "enter_button"
    THEN [Blank EXCEPT !.screen = "show_introduction", !.rerun = TRUE]
           @@ [session_state |-> set_state(ss, "page", "Enter Data")]
    ELSE [Blank EXCEPT !.screen = "show_introduction"]
           @@ [session_state |-> ss]

show_introduction(ss, ev) ==
    IF ev.kind = "enter_button"
    THEN [Blank EXCEPT !.screen = "show_introduction", !.rerun = TRUE]
           @@ [session_state |-> set_state(ss, "page", "Enter your Data")]
    ELSE [Blank EXCEPT !.screen = "show_introduction"]
           @@ [session_state |-> ss]

show_input_mut(ss, ev) ==
    IF ev.kind = "calculate_button"
    THEN LET d == [category \in {"livestock", "crops", "fertilizer", "fuel"}
                      |-> ev.form[category]]
         IN  [Blank EXCEPT !.screen = "show_input", !.rerun = TRUE]
               @@ [session_state |->
                     set_state(set_state(ss, "data", d), "page", "Result")]
    ELSE [Blank EXCEPT !.screen = "show_input"] @@ [session_state |-> ss]

\* ev.form holds the five dicts the multiselect / number_input pairs give
show_input(ss, ev) ==
    IF ev.kind = "calculate_button"
    THEN LET d == [livestock |-> ev.form["livestock"],
                   crops |-> ev.form["crops"],
                   fertilizer |-> ev.form["fertilizer"],
                   fuel |-> ev.form["fuel"],
                   electricity |-> ev.form["electricity"]]
         IN  [Blank EXCEPT !.screen = "show_input", !.rerun = TRUE]
               @@ [session_state |->
                     set_state(set_state(ss, "data", d), "page", "Result")]
    ELSE [Blank EXCEPT !.screen = "show_input"] @@ [session_state |-> ss]

show_results(ss) ==
    IF "data" \in DOMAIN ss
    THEN LET d == ss["data"]
             t == calculate_total_emissions(d)
             p == predict_future_emissions(d)
             r == generate_recommendations(d)
             c == plot_comparison_chart(d)
             B == [Blank EXCEPT !.screen = "show_results", !.data = d]
                    @@ [session_state |-> ss]
         IN  IF t.raised # "none"
             THEN [B EXCEPT !.calls = <<"calculate_total_emissions">>,
                            !.raised = t.raised]
             ELSE IF p.raised # "none"
             THEN [B EXCEPT !.calls = <<"calculate_total_emissions",
                                        "predict_future_emissions">>,
                            !.total_emissions = t.value,
                            !.raised = p.raised]
             ELSE [B EXCEPT !.calls = <<"calculate_total_emissions",
                                        "predict_future_emissions",
                                        "generate_recommendations",
                                        "plot_comparison_chart">>,
                            !.total_emissions = t.value,
                            !.predicted_emissions = p.value,
                            !.recommendations = r.value,
                            !.comparison = c.value,
                            !.raised = c.raised]
    ELSE [Blank EXCEPT !.screen = "show_results",
                       !.error = "No data available. Please enter your data first."]
           @@ [session_state |-> ss]

\* the module-level script: lines 288-301
main(ss, rad, ev) ==
    LET ss1 == IF "page" \notin DOMAIN ss THEN set_state(ss, "page", "Home")
               ELSE ss
        nav == show_navigation_bar(ss1, rad, ev)
        page == nav.session_state["page"]
    IN  IF nav.raised # "none"
        THEN [Blank EXCEPT !.screen = "exception", !.raised = nav.raised]
               @@ [session_state |-> nav.session_state, radio |-> nav.radio]
        ELSE (IF page = "Home" THEN show_introduction(nav.session_state, ev)
              ELSE IF page = "Enter your Data"
              THEN show_input(nav.session_state, ev)
              ELSE IF page = "Result" THEN show_results(nav.session_state)
              ELSE [Blank EXCEPT !.screen = "unknown",
                                 !.error = "Unknown page."]
                     @@ [session_state |-> nav.session_state])
             @@ [radio |-> nav.radio]

\* a run, and the run st.rerun() starts at once when a button handler asks
run(ss, rad, ev) ==
    LET r == main(ss, rad, ev)
    IN  IF r.rerun THEN main(r.session_state, r.radio, NoEvent) ELSE r

Show(r, ev) ==
    /\ session_state' = r.session_state
    /\ radio' = r.radio
    /\ screen' = r.screen
    /\ error' = r.error
    /\ event' = ev
    /\ calls' = r.calls
    /\ data' = r.data
    /\ total_emissions' = r.total_emissions
    /\ predicted_emissions' = r.predicted_emissions
    /\ recommendations' = r.recommendations
    /\ comparison' = r.comparison
    /\ raised' = r.raised
    /\ factors' = factors

-----------------------------------------------------------------------------
(* Inputs *)

Min(a, b) == IF a < b THEN a ELSE b

\* the first n item names of a table category
Leading(category, n) ==
    {EMISSION_FACTORS[category][i][1] :
        i \in 1..Min(n, Len(EMISSION_FACTORS[category]))}

\* position of an item in its table category
Position(category, item) ==
    CHOOSE i \in 1..Len(EMISSION_FACTORS[category]) :
        EMISSION_FACTORS[category][i][1] = item

\* every item mapping of exactly k items, each among the first per items of
\* the category, selected in table order, quantities drawn from a set
RECURSIVE ItemMaps(_, _, _, _)
ItemMaps(category, k, per, quantities) ==
    IF k = 0 THEN {<<>>}
    ELSE {Append(t[1], <<t[2], t[3]>>) :
            t \in {u \in ItemMaps(category, k - 1, per, quantities)
                           \X Leading(category, per) \X quantities :
                      \A j \in 1..Len(u[1]) :
                          Position(category, u[1][j][1])
                            < Position(category, u[2])}}

\* every mapping of the first i categories to item mappings holding at most
\* n items in all
RECURSIVE InputsUpTo(_, _, _, _)
InputsUpTo(i, n, per, quantities) ==
    IF i = 0 THEN {NoData}
    ELSE UNION {
           {[c \in DOMAIN t[1] \cup {CategoryOrder[i]} |->
                 IF c = CategoryOrder[i] THEN t[2] ELSE t[1][c]] :
              t \in InputsUpTo(i - 1, n - k, per, quantities)
                      \X ItemMaps(CategoryOrder[i], k, per, quantities)} :
           k \in 0..n}

\* every QuantityInput of the five categories with at most n items
Inputs(n, per, quantities) ==
    InputsUpTo(Len(CategoryOrder), n, per, quantities)

\* what the input page can hand over: multiselect offers table items only,
\* number_input has min_value=0
FormInputs == Inputs(MaxSelected, FormItemsPerCat, {0, FormMaxQty})

UnknownItem == "Unicorn"
UnknownCategory == "water"

\* the malformed variants of a well-formed input: one category dropped, one
\* unknown category added, or one unknown item added to a category
Malformed(d) ==
    {[c \in DOMAIN d \ {x} |-> d[c]] : x \in Categories}
    \cup {[c \in DOMAIN d \cup {UnknownCategory} |->
              IF c = UnknownCategory THEN << <<UnknownItem, 1>> >> ELSE d[c]]}
    \cup {[d EXCEPT ![c] = Append(@, <<UnknownItem, MaxQty>>)] :
              c \in Categories}

\* the inputs handed directly to the engine: the well-formed ones of at most
\* n items, and the malformed variants of those of fewer items
EngineInputs(n) ==
    Inputs(n, ItemsPerCat, {0, MaxQty})
    \cup UNION {Malformed(d) : d \in Inputs(n - 1, ItemsPerCat, {0, MaxQty})}

-----------------------------------------------------------------------------
(* Specification of the session *)

Init ==
    LET r == run(NoSession, NoRadio, NoEvent)
    IN  /\ factors = EMISSION_FACTORS
        /\ session_state = r.session_state
        /\ radio = r.radio
        /\ screen = r.screen
        /\ error = r.error
        /\ event = NoEvent
        /\ calls = r.calls
        /\ data = r.data
        /\ total_emissions = r.total_emissions
        /\ predicted_emissions = r.predicted_emissions
        /\ recommendations = r.recommendations
        /\ comparison = r.comparison
        /\ raised = r.raised

\* the user picks a page on the sidebar radio
SelectPage ==
    /\ radio.index >= 0
    /\ \E p \in {pages[i] : i \in 1..Len(pages)} :
        LET ev == [kind |-> "radio", value |-> p, form |-> NoData]
        IN  \E r \in {run(session_state, radio, ev)} : Show(r, ev)

\* the user presses "Enter your Data" on the Home page
ClickEnterYourData ==
    /\ screen = "show_introduction"
    /\ LET ev == [kind |-> "enter_button", value |-> "", form |-> NoData]
       IN  \E r \in {run(session_state, radio, ev)} : Show(r, ev)

\* the user presses "Calculate Emissions" on the input page
ClickCalculateEmissions ==
    /\ screen = "show_input"
    /\ \E form \in FormInputs :
          LET ev == [kind |-> "calculate_button", value |-> "", form |-> form]
          IN  \E r \in {run(session_state, radio, ev)} : Show(r, ev)

Next == SelectPage \/ ClickEnterYourData \/ ClickCalculateEmissions

Spec == Init /\ [][Next]_vars

-----------------------------------------------------------------------------
(* Specification of the engine: each function applied to a drawn input *)

InitEngine ==
    /\ factors = EMISSION_FACTORS
    /\ session_state = NoSession
    /\ radio = NoRadio
    /\ screen = Blank.screen
    /\ error = Blank.error
    /\ event = NoEvent
    /\ calls = <<>>
    /\ data \in EngineInputs(MaxItems)
    /\ total_emissions = NoTotals
    /\ predicted_emissions = NoPrediction
    /\ recommendations = <<>>
    /\ comparison = NoComparison
    /\ raised = "none"

Session == <<session_state, radio, screen, error, event>>

CallCalculateTotalEmissions_mut ==
    LET r == calculate_total_emissions(data)
    IN  /\ calls' = <<"calculate_total_emissions">>
        /\ total_emissions' = r.value
        /\ raised' = r.raised
        /\ predicted_emissions' = NoPrediction
        /\ recommendations' = <<>>
        /\ comparison' = NoComparison
        /\ data' = [category \in DOMAIN data |-> <<>>]
        /\ UNCHANGED <<factors, Session>>

CallCalculateTotalEmissions ==
    LET r == calculate_total_emissions(data)
    IN  /\ calls' = <<"calculate_total_emissions">>
        /\ total_emissions' = r.value
        /\ raised' = r.raised
        /\ predicted_emissions' = NoPrediction
        /\ recommendations' = <<>>
        /\ comparison' = NoComparison
        /\ UNCHANGED <<factors, data, Session>>

CallPredictFutureEmissions ==
    LET r == predict_future_emissions(data)
    IN  /\ calls' = <<"predict_future_emissions">>
        /\ predicted_emissions' = r.value
        /\ raised' = r.raised
        /\ total_emissions' = NoTotals
        /\ recommendations' = <<>>
        /\ comparison' = NoComparison
        /\ UNCHANGED <<factors, data, Session>>

CallGenerateRecommendations ==
    LET r == generate_recommendations(data)
    IN  /\ calls' = <<"generate_recommendations">>
        /\ recommendations' = r.value
        /\ raised' = r.raised
        /\ total_emissions' = NoTotals
        /\ predicted_emissions' = NoPrediction
        /\ comparison' = NoComparison
        /\ UNCHANGED <<factors, data, Session>>

CallPlotComparisonChart ==
    LET r == plot_comparison_chart(data)
    IN  /\ calls' = <<"plot_comparison_chart">>
        /\ comparison' = r.value
        /\ raised' = r.raised
        /\ total_emissions' = NoTotals
        /\ predicted_emissions' = NoPrediction
        /\ recommendations' = <<>>
        /\ UNCHANGED <<factors, data, Session>>

NextEngine ==
    \/ CallCalculateTotalEmissions
    \/ CallPredictFutureEmissions
    \/ CallGenerateRecommendations
    \/ CallPlotComparisonChart

SpecEngine == InitEngine /\ [][NextEngine]_vars

-----------------------------------------------------------------------------
(* What the specification says, stated apart from the engine's operators *)

\* factorOf(category, item) of the Emission Factor Table: 0 for an item the
\* category does not list
factorOf(category, item) ==
    LET T == EMISSION_FACTORS[category]
        S == {i \in 1..Len(T) : T[i][1] = item}
    IN  IF S = {} THEN 0 ELSE T[CHOOSE i \in S : TRUE][2]

\* sum over the entries at the positions S of quantity x factorOf
RECURSIVE SumOver(_, _, _)
SumOver(S, category, items) ==
    IF S = {} THEN 0
    ELSE LET i == CHOOSE j \in S : TRUE
         IN  items[i][2] * factorOf(category, items[i][1])
             + SumOver(S \ {i}, category, items)

ExpectedTotal(category, items) ==
    SumOver(1..Len(items), category, items)

RECURSIVE GrandSum(_, _)
GrandSum(S, d) ==
    IF S = {} THEN 0
    ELSE LET c == CHOOSE x \in S : TRUE
         IN  ExpectedTotal(c, d[c]) + GrandSum(S \ {c}, d)

\* 0.8 = 4 / 5 and 1.05 = 21 / 20 as values
FourFifths == [n |-> 1, e |-> <<2, 0, -1, 0>>]
TwentyOneTwentieths == [n |-> 1, e |-> <<-2, 1, -1, 1>>]

Positive(items) == {i \in 1..Len(items) : items[i][2] > 0}

RECURSIVE CountPositive(_, _)
CountPositive(S, d) ==
    IF S = {} THEN 0
    ELSE LET c == CHOOSE x \in S : TRUE
         IN  Cardinality(Positive(d[c])) + CountPositive(S \ {c}, d)

RECURSIVE CountItems(_, _)
CountItems(S, d) ==
    IF S = {} THEN 0
    ELSE LET c == CHOOSE x \in S : TRUE
         IN  Len(d[c]) + CountItems(S \ {c}, d)

NonEmpty(d) == {c \in Categories \cap DOMAIN d : d[c] # <<>>}

HasUnknownItem(d) ==
    \E c \in Categories \cap DOMAIN d :
        \E i \in 1..Len(d[c]) :
            \A j \in 1..Len(EMISSION_FACTORS[c]) :
                EMISSION_FACTORS[c][j][1] # d[c][i][1]

\* the entry of an input that the k-th bar of the comparison chart shows
RECURSIVE EntryAt(_, _, _)
EntryAt(d, k, i) ==
    IF k <= Len(d[CategoryOrder[i]])
    THEN [category |-> CategoryOrder[i], entry |-> d[CategoryOrder[i]][k]]
    ELSE EntryAt(d, k - Len(d[CategoryOrder[i]]), i + 1)

\* a stored QuantityInput as the input page builds it
WellFormed(d) ==
    /\ DOMAIN d = Categories
    /\ ~HasUnknownItem(d)
    /\ \A c \in Categories : \A i \in 1..Len(d[c]) : d[c][i][2] >= 0

AllEngineCalls ==
    <<"calculate_total_emissions", "predict_future_emissions",
      "generate_recommendations", "plot_comparison_chart">>

-----------------------------------------------------------------------------
(* Claims *)

\* C1: for an input whose categories are all table categories, the total
\* calculate_total_emissions returns for each category is the sum over its
\* items of quantity x factorOf(category, item); a single item {item: q}
\* gives q x factor, and {Beef Cow: 2} gives a livestock total of 198.0.
C1_TotalsAreSums ==
    (calls = <<"calculate_total_emissions">> /\ DOMAIN data \subseteq Categories)
    => /\ raised = "none"
       /\ DOMAIN total_emissions = DOMAIN data
       /\ \A c \in DOMAIN data :
            /\ total_emissions[c] = ExpectedTotal(c, data[c])
            /\ Len(data[c]) = 1
               => total_emissions[c]
                    = data[c][1][2] * factorOf(c, data[c][1][1])
       /\ ("livestock" \in DOMAIN data
             /\ data["livestock"] = << <<"Beef Cow", 2>> >>)
          => total_emissions["livestock"] = 19800

\* C1 witness: the totals of an input with two livestock items were computed
C1_Witness ==
    /\ calls = <<"calculate_total_emissions">>
    /\ DOMAIN data = Categories
    /\ data["livestock"] = << <<"Beef Cow", 2>>, <<"Dairy Cow", 2>> >>
    /\ total_emissions["livestock"] = 40200

\* C2: calculate_total_emissions returns a total for each of the five
\* categories, 0 for a category absent from the input.
C2_AllFiveTotals ==
    (calls = <<"calculate_total_emissions">> /\ DOMAIN data \subseteq Categories)
    => /\ raised = "none"
       /\ \A c \in Categories :
            /\ c \in DOMAIN total_emissions
            /\ c \notin DOMAIN data => total_emissions[c] = 0

\* C3: in calculate_total_emissions, predict_future_emissions and the
\* comparison series an item that is no key of the table under its category
\* counts as factor 0 and the operation completes without raising.
C3_UnknownItemIsZero ==
    (/\ calls \in {<<"calculate_total_emissions">>,
                   <<"predict_future_emissions">>,
                   <<"plot_comparison_chart">>}
     /\ DOMAIN data = Categories
     /\ HasUnknownItem(data))
    => raised = "none"

\* C4: calculate_total_emissions treats a category key that is not in the
\* table as empty (total 0) and returns normally.
C4_UnknownCategoryIsEmpty ==
    (calls = <<"calculate_total_emissions">>
       /\ ~(DOMAIN data \subseteq Categories))
    => /\ raised = "none"
       /\ \A c \in DOMAIN data \ Categories :
            c \in DOMAIN total_emissions /\ total_emissions[c] = 0

\* C5: for an input holding the five categories, predict_future_emissions
\* returns 'traditional' and 'reduced' of length 10 each, traditional[0] the
\* grand sum of the five category totals, reduced[0] = traditional[0] x 0.8,
\* and each later entry the one before it x 1.05.
C5_Projection ==
    (calls = <<"predict_future_emissions">> /\ DOMAIN data = Categories)
    => LET t == predicted_emissions.traditional
           r == predicted_emissions.reduced
       IN  /\ raised = "none"
           /\ Len(t) = 10 /\ Len(r) = 10
           /\ t[1] = ToReal(GrandSum(Categories, data))
           /\ r[1] = Times(t[1], FourFifths)
           /\ \A i \in 2..10 :
                /\ t[i] = Times(t[i - 1], TwentyOneTwentieths)
                /\ r[i] = Times(r[i - 1], TwentyOneTwentieths)

\* C5 witness: the projection of {Beef Cow: 2}, base 198.0, was computed:
\* 207.9 in the second year, reduced 158.4 and 166.32
C5_Witness ==
    /\ calls = <<"predict_future_emissions">>
    /\ DOMAIN data = Categories
    /\ data["livestock"] = << <<"Beef Cow", 2>> >>
    /\ GrandSum(Categories, data) = 19800
    /\ Len(predicted_emissions.traditional) = 10
    /\ predicted_emissions.traditional[2] = ToReal(20790)
    /\ predicted_emissions.reduced[1] = ToReal(15840)
    /\ predicted_emissions.reduced[2] = ToReal(16632)

\* C6 as stated: the list generate_recommendations returns holds exactly one
\* message per item with quantity > 0 and nothing else.
C6_OneMessagePerPositiveItem ==
    calls = <<"generate_recommendations">>
    => Len(recommendations) = CountPositive(Categories \cap DOMAIN data, data)

\* C6 amended: the list holds, for each of the five categories whose item
\* mapping is present and not empty, one heading line, and one message of
\* the category's template per item with quantity > 0, and nothing else.
C6_HeadingsAndMessages ==
    calls = <<"generate_recommendations">>
    => /\ raised = "none"
       /\ Len(recommendations)
            = Cardinality(NonEmpty(data))
              + CountPositive(Categories \cap DOMAIN data, data)
       /\ \A c \in Categories :
            /\ Cardinality({i \in 1..Len(recommendations) :
                              recommendations[i] = Header(c)})
                 = IF c \in NonEmpty(data) THEN 1 ELSE 0
            /\ Cardinality({i \in 1..Len(recommendations) :
                              recommendations[i].text = Advice(c, "").text})
                 = IF c \in DOMAIN data
                   THEN Cardinality(Positive(data[c])) ELSE 0
       /\ \A i \in 1..Len(recommendations) :
            \E c \in Categories :
                \/ recommendations[i] = Header(c)
                \/ recommendations[i].text = Advice(c, "").text

\* C6 witness: recommendations for an input with one positive item and, in
\* another category, only a zero-quantity item: two headings, one message
C6_Witness ==
    /\ calls = <<"generate_recommendations">>
    /\ DOMAIN data = Categories
    /\ data["livestock"] = << <<"Beef Cow", 2>> >>
    /\ data["crops"] = << <<"Wheat", 0>> >>
    /\ recommendations
         = <<Header("livestock"), Advice("livestock", "Beef Cow"),
             Header("crops")>>

\* C7: the comparison series has aligned labels, traditional and reduced
\* sequences with one entry per item of the input, traditional[k] =
\* quantity x factor of item labels[k], reduced[k] = traditional[k] x 0.8,
\* and is produced for any QuantityInput of table items, also one that
\* omits a category.
C7_ComparisonSeries ==
    (/\ calls = <<"plot_comparison_chart">>
     /\ DOMAIN data \subseteq Categories
     /\ ~HasUnknownItem(data))
    => LET n == CountItems(DOMAIN data, data)
       IN  /\ raised = "none"
           /\ Len(comparison.labels) = n
           /\ Len(comparison.traditional_values) = n
           /\ Len(comparison.reduced_values) = n
           /\ DOMAIN data = Categories
              => \A k \in 1..n :
                   LET x == EntryAt(data, k, 1)
                   IN  /\ comparison.labels[k] = x.entry[1]
                       /\ comparison.traditional_values[k]
                            = x.entry[2] * factorOf(x.category, x.entry[1])
                       /\ comparison.reduced_values[k]
                            = Times(ToReal(comparison.traditional_values[k]),
                                    FourFifths)

\* C8: no engine call changes the emission factor table or the input it is
\* given, and calling the operation just called again returns the same
\* result.
C8_EngineIsPure ==
    [][/\ factors' = factors
       /\ data' = data
       /\ calls' = calls
          => /\ total_emissions' = total_emissions
             /\ predicted_emissions' = predicted_emissions
             /\ recommendations' = recommendations
             /\ comparison' = comparison
             /\ raised' = raised]_vars

\* C8 witness: an engine call on a two-item input has returned, table intact
C8_Witness ==
    /\ calls = <<"plot_comparison_chart">>
    /\ raised = "none"
    /\ comparison.labels = <<"Beef Cow", "Wheat">>
    /\ factors = EMISSION_FACTORS

\* C9: data in the session state was written by 'Calculate Emissions' and
\* holds exactly the five category keys, table items only and quantities
\* >= 0; every engine call of show_results completes without a missing-key
\* failure; the Result page without stored data calls no engine function
\* and shows the 'No data available' error.
C9_StoredData ==
    /\ "data" \in DOMAIN session_state => WellFormed(session_state["data"])
    /\ raised = "none"
    /\ calls # <<>> => (screen = "show_results" /\ "data" \in DOMAIN session_state)
    /\ (screen = "show_results" /\ "data" \in DOMAIN session_state)
       => /\ calls = AllEngineCalls
          /\ data = session_state["data"]
          /\ error = ""
    /\ (screen = "show_results" /\ "data" \notin DOMAIN session_state)
       => /\ calls = <<>>
          /\ error = "No data available. Please enter your data first."

C9_WrittenByCalculate ==
    ("data" \in DOMAIN session_state'
       /\ ("data" \notin DOMAIN session_state
             \/ session_state'["data"] # session_state["data"]))
    => /\ event'.kind = "calculate_button"
       /\ session_state'["data"] = event'.form

\* C9: the stored data is always well formed and rendered without failure,
\* and only 'Calculate Emissions' writes it
C9_SessionData == []C9_StoredData /\ [][C9_WrittenByCalculate]_vars

\* C9 witness: the Result page rendered stored data with a positive item
C9_Witness ==
    /\ screen = "show_results"
    /\ "data" \in DOMAIN session_state
    /\ session_state["data"]["livestock"] = << <<"Beef Cow", 1>> >>
    /\ calls = AllEngineCalls
    /\ total_emissions["livestock"] = 9900
    /\ raised = "none"

\* C10: the session page starts at 'Home' and is always one of 'Home',
\* 'Enter your Data', 'Result'; the 'Unknown page.' branch is never
\* reached; 'Calculate Emissions' stores the data and sets the page to
\* 'Result' in the same step.
C10_PageIsKnown ==
    /\ "page" \in DOMAIN session_state
    /\ session_state["page"] \in {"Home", "Enter your Data", "Result"}
    /\ screen \in {"show_introduction", "show_input", "show_results"}
    /\ error # "Unknown page."

C10_CalculateStoresAndShows ==
    event'.kind = "calculate_button"
    => /\ "data" \in DOMAIN session_state'
       /\ session_state'["data"] = event'.form
       /\ session_state'["page"] = "Result"
       /\ screen' = "show_results"

\* C10: starting at 'Home', the page is always a known page, and
\* 'Calculate Emissions' stores the data and shows 'Result' in one step
C10_Navigation ==
    /\ session_state["page"] = "Home"
    /\ []C10_PageIsKnown
    /\ [][C10_CalculateStoresAndShows]_vars

\* C10 witness: 'Calculate Emissions' was pressed and the Result page shows
C10_Witness ==
    /\ event.kind = "calculate_button"
    /\ session_state["page"] = "Result"
    /\ session_state["data"] = event.form
    /\ screen = "show_results"

====
